---- MODULE Spec2Model ----
(***************************************************************************)
(* Model of mama_cas/mixins.py: the three ticket validators of             *)
(* TicketValidateMixin, run by concurrent request workers against a shared *)
(* ticket store, and CustomAttributesMixin.get_custom_attributes.          *)
(*                                                                         *)
(* The ticket store (mama_cas.models managers: validate_ticket and         *)
(* create_ticket) is not part of mixins.py; it is modelled from the        *)
(* interface the specification gives for it (sections 3, 5, 6 and 7).      *)
(***************************************************************************)
EXTENDS Integers, Sequences, FiniteSets, TLC

\* Python's None.
None == "None"

\* Bounds of the model.
MaxPT == 2
MaxPGT == 2
MaxAttrs == 2
\* Iterations of the chain walk of one validate_proxy_ticket call that are
\* followed.
MaxWalk == 4

\* Request workers: each runs one validator call at a time.
Procs == {"w1", "w2"}

Users == {"alice", "bob"}
Services == {"https://a.example", "https://b.example"}

\* Values of the pgtUrl request parameter: absent, present but empty, a URL.
EmptyStr == ""
CallbackUrl == "https://cb.example"
PgtUrls == {None, EmptyStr, CallbackUrl}

\* Values of the renew request parameter.
Renews == {None, "true"}

\* mama_cas.exceptions
InvalidRequestError == "InvalidRequestError"
InvalidTicketError == "InvalidTicketError"
InvalidServiceError == "InvalidServiceError"
InternalError == "InternalError"
BadPGTError == "BadPGTError"
\* Python's AttributeError, raised by an attribute access on None.
AttributeError == "AttributeError"

VARIABLES
    sts,        \* store: ServiceTickets, by ticket string
    pts,        \* store: ProxyTickets
    pgts,       \* store: ProxyGrantingTickets
    calls,      \* per worker: the validator call in progress
    last,       \* the validator call that finished last, with its result
    stReturned, \* history: per ServiceTicket, the calls that returned it
    ptReturned, \* history: per ProxyTicket, the calls that returned it
    attrIn,     \* input of get_custom_attributes
    attrOut     \* result of get_custom_attributes

vars == <<sts, pts, pgts, calls, last, stReturned, ptReturned, attrIn, attrOut>>
storeVars == <<sts, pts, pgts>>
attrVars == <<attrIn, attrOut>>

Range(s) == {s[i] : i \in DOMAIN s}

\* Ticket strings: the store numbers the tickets of each kind as it creates
\* them.
PTId(i) == "PT-" \o ToString(i)
PGTId(i) == "PGT-" \o ToString(i)
\* The login sessions: each obtains one ServiceTicket.
STIds == {"ST-1"}
PTIds == {PTId(i) : i \in 1..MaxPT}
PGTIds == {PGTId(i) : i \in 1..MaxPGT}
Count(tickets) == Cardinality(DOMAIN tickets)

----------------------------------------------------------------------------
(* Ticket store, modelled from the interface of spec sections 3, 5, 6, 7.  *)

\* The store's error for a service-ticket or proxy-ticket validation request,
\* None when the request is valid.  tickets is sts or pts.
TicketError(tickets, ticket, service) ==
    IF ticket = None THEN InvalidRequestError
    ELSE IF ticket \notin DOMAIN tickets THEN InvalidTicketError
    ELSE IF tickets[ticket].consumed THEN InvalidTicketError
    ELSE IF service = None THEN InvalidRequestError
    ELSE IF service # tickets[ticket].service THEN InvalidServiceError
    ELSE None

\* What one validate_ticket call on ServiceTicket.objects or
\* ProxyTicket.objects can do: the ticket found (to be consumed), or the
\* error raised.  A store-side failure (InternalError) can occur on any call.
\* Renewal enforcement is the store's: whether a ticket was issued from
\* primary credentials is not part of this model, so a request with renew
\* set may be rejected as InvalidTicketError.
ValidateTicketOutcomes(tickets, ticket, service, renew) ==
    {[t |-> None, err |-> InternalError]}
    \cup {[t |-> None, err |-> InvalidTicketError] : x \in {renew} \ {None}}
    \cup {IF TicketError(tickets, ticket, service) = None
          THEN [t |-> ticket, err |-> None]
          ELSE [t |-> None,
                err |-> TicketError(tickets, ticket, service)]}

\* Single use: a successful validation consumes the ticket, atomically with
\* the check.
Consume(tickets, t) ==
    IF t = None THEN tickets ELSE [tickets EXCEPT ![t].consumed = TRUE]

\* The store's error for a proxy-granting-ticket validation request.
PGTError(pgt, target_service) ==
    IF pgt = None \/ target_service = None THEN InvalidRequestError
    ELSE IF pgt \notin DOMAIN pgts THEN BadPGTError
    ELSE None

ValidatePGTOutcomes(pgt, target_service) ==
    {[t |-> None, err |-> InternalError]}
    \cup {IF PGTError(pgt, target_service) = None
          THEN [t |-> pgt, err |-> None]
          ELSE [t |-> None, err |-> PGTError(pgt, target_service)]}

\* ProxyGrantingTicket.objects.create_ticket(pgturl, **kwargs)
NewPGT == PGTId(Count(pgts) + 1)
CreatePGT(kwargs) == pgts @@ (NewPGT :> kwargs)

\* ProxyTicket.objects.create_ticket(**kwargs): a fresh, unconsumed ticket.
NewPT == PTId(Count(pts) + 1)
CreatePT(kwargs) ==
    pts @@ (NewPT :> [service |-> kwargs.service, user |-> kwargs.user,
                      granted_by_pgt |-> kwargs.granted_by_pgt,
                      consumed |-> FALSE])

----------------------------------------------------------------------------
(* TicketValidateMixin                                                     *)

\* A worker with no call in progress.
Idle ==
    [op |-> "idle", pc |-> "idle", service |-> None, pgturl |-> None,
     t |-> None, proxies |-> <<>>, prior_pt |-> None]

\* A call whose store validation succeeded and returned ticket t: the locals
\* that the else branch reads.
InElse(op, service, pgturl, t) ==
    [op |-> op, pc |-> "else", service |-> service, pgturl |-> pgturl,
     t |-> t, proxies |-> <<>>, prior_pt |-> None]

\* The result of a finished call: the returned tuple, or the exception that
\* left the validator.  arity is the length of the returned tuple; a slot
\* the tuple does not have is None.
Returned(arity, ticket, pgt, proxies, error) ==
    [how |-> "return", arity |-> arity, ticket |-> ticket, pgt |-> pgt,
     proxies |-> proxies, error |-> error]
Raised(e) ==
    [how |-> "raise", arity |-> 0, ticket |-> None, pgt |-> None,
     proxies |-> None, error |-> e]

\* A finished call: the ticket string and pgtUrl it presented, what the
\* store's validation raised (None: nothing), and its result.
Finished(op, ticket, pgturl, exc, result) ==
    [op |-> op, ticket |-> ticket, pgturl |-> pgturl, exc |-> exc,
     result |-> result]

\* No result is waiting for the caller.
NoCall == Finished("idle", None, None, None, None)

\* The caller (the view that renders the response) takes a returned result
\* before the workers go on, so that each result is observed on its own.
Delivered == last = NoCall

CanStart(p) == Delivered /\ calls[p].pc = "idle"

\* An except clause: an exception of a listed class is handled, any other
\* leaves the validator.
Except(caught, e, handled) == IF e \in caught THEN handled ELSE Raised(e)

\* Variant: the test of pgturl is lost.
WantsPGTAlways(pgturl) == TRUE

\* `if pgturl:` -- None and the empty string are false.
WantsPGT(pgturl) == pgturl \notin {None, EmptyStr}

(* validate_service_ticket *)

STCaught ==
    {InvalidRequestError, InvalidTicketError, InvalidServiceError,
     InternalError}

\* Variant: the error returned is not the one caught.
STFailureGeneric(e) == Returned(3, None, None, None, InternalError)

\* return None, None, e
STFailure(e) == Returned(3, None, None, None, e)

\* Variant: an error is returned beside the ticket and the
\* ProxyGrantingTicket.
STSuccessWithError(st, pgt) == Returned(3, st, pgt, None, InternalError)

\* return st, pgt, None
STSuccess(st, pgt) == Returned(3, st, pgt, None, None)

\* Variant: granted_by_st is not passed.
STPgtKwargsNoOrigin(st, pgturl) ==
    [url |-> pgturl, user |-> sts[st].user, granted_by_st |-> None,
     granted_by_pt |-> None]

\* create_ticket(pgturl, user=st.user, granted_by_st=st)
STPgtKwargs(st, pgturl) ==
    [url |-> pgturl, user |-> sts[st].user, granted_by_st |-> st,
     granted_by_pt |-> None]

\* The request parameters are read and ServiceTicket.objects.validate_ticket
\* returns the ticket.
STValidate(p) ==
    /\ CanStart(p)
    /\ \E service \in Services \cup {None}, ticket \in STIds \cup {None},
          renew \in Renews, pgturl \in PgtUrls :
         \E out \in ValidateTicketOutcomes(sts, ticket, service, renew) :
            /\ out.err = None
            /\ sts' = Consume(sts, out.t)
            /\ calls' = [calls EXCEPT ![p] =
                    InElse("st", service, pgturl, out.t)]
    /\ UNCHANGED <<pts, pgts, last, stReturned, ptReturned, attrVars>>

\* The request parameters are read, ServiceTicket.objects.validate_ticket
\* raises and the except clause runs.  No step of it touches the store, and
\* the worker is free again at its end.
STExcept ==
    /\ \E p \in Procs : CanStart(p)
    /\ \E service \in Services \cup {None}, ticket \in STIds \cup {None},
          renew \in Renews, pgturl \in PgtUrls :
         \E out \in ValidateTicketOutcomes(sts, ticket, service, renew) :
            /\ out.err # None
            /\ last' = Finished("st", ticket, pgturl, out.err,
                    Except(STCaught, out.err, STFailure(out.err)))
    /\ UNCHANGED <<storeVars, calls, stReturned, ptReturned, attrVars>>

STElse(p) ==
    LET c == calls[p] IN
    /\ Delivered /\ c.op = "st" /\ c.pc = "else"
    /\ IF WantsPGT(c.pgturl)
       THEN /\ Count(pgts) < MaxPGT
            /\ pgts' = CreatePGT(STPgtKwargs(c.t, c.pgturl))
            /\ last' = Finished("st", c.t, c.pgturl, None,
                                STSuccess(c.t, NewPGT))
       ELSE /\ pgts' = pgts
            /\ last' = Finished("st", c.t, c.pgturl, None,
                                STSuccess(c.t, None))
    /\ calls' = [calls EXCEPT ![p] = Idle]
    /\ stReturned' = [stReturned EXCEPT ![c.t] = @ + 1]
    /\ UNCHANGED <<sts, pts, ptReturned, attrVars>>

(* validate_proxy_ticket *)

\* Variant: InvalidTicketError is missing from the except clause.
PTCaughtNoTicket ==
    {InvalidRequestError, InvalidServiceError, InternalError}

PTCaught ==
    {InvalidRequestError, InvalidTicketError, InvalidServiceError,
     InternalError}

\* return None, None, None, e
PTFailure(e) == Returned(4, None, None, None, e)

\* return pt, pgt, proxies, None
PTSuccess(pt, pgt, proxies) == Returned(4, pt, pgt, proxies, None)

\* Variant: the origin of the ProxyTicket's own ProxyGrantingTicket is passed
\* on as granted_by_st, beside granted_by_pt.
PTPgtKwargsBoth(pt, pgturl) ==
    [url |-> pgturl, user |-> pts[pt].user,
     granted_by_st |-> pgts[pts[pt].granted_by_pgt].granted_by_st,
     granted_by_pt |-> pt]

\* Variant: the ProxyGrantingTicket is given the origin of the ProxyTicket's
\* own ProxyGrantingTicket instead of the ProxyTicket.
PTPgtKwargsFromST(pt, pgturl) ==
    [url |-> pgturl, user |-> pts[pt].user,
     granted_by_st |-> pgts[pts[pt].granted_by_pgt].granted_by_st,
     granted_by_pt |-> pgts[pts[pt].granted_by_pgt].granted_by_pt]

\* create_ticket(pgturl, user=pt.user, granted_by_pt=pt)
PTPgtKwargs(pt, pgturl) ==
    [url |-> pgturl, user |-> pts[pt].user, granted_by_st |-> None,
     granted_by_pt |-> pt]

\* Variant: the chain starts from the ProxyTicket issued last, not from the
\* one validated.
FirstProxyNewest(pt) == <<pts[PTId(Count(pts))].service>>

\* proxies = [pt.service]
FirstProxy(pt) == <<pts[pt].service>>

\* Variant: the chain is built in the order of the authentication.
PrependProxy(proxies, prior_pt) == <<pts[prior_pt].service>> \o proxies

\* proxies.append(prior_pt.service)
AppendProxy(proxies, prior_pt) == Append(proxies, pts[prior_pt].service)

\* <ticket>.granted_by_pgt.granted_by_pt: the attribute access on
\* granted_by_pgt raises AttributeError when granted_by_pgt is None.
DerefRaises(pt) == pts[pt].granted_by_pgt = None

\* Variant: the walk finds no prior ProxyTicket.
NoPriorPT(pt) == None

\* Variant: the walk does not move on from the ticket it is at.
GrantedByPTSame(pt) == pt
GrantedByPT(pt) == pgts[pts[pt].granted_by_pgt].granted_by_pt

PTValidate(p) ==
    /\ CanStart(p)
    /\ \E service \in Services \cup {None}, ticket \in PTIds \cup {None},
          pgturl \in PgtUrls :
         \E out \in ValidateTicketOutcomes(pts, ticket, service, None) :
            /\ out.err = None
            /\ pts' = Consume(pts, out.t)
            /\ calls' = [calls EXCEPT ![p] =
                    InElse("pt", service, pgturl, out.t)]
    /\ UNCHANGED <<sts, pgts, last, stReturned, ptReturned, attrVars>>

PTExcept ==
    /\ \E p \in Procs : CanStart(p)
    /\ \E service \in Services \cup {None}, ticket \in PTIds \cup {None},
          pgturl \in PgtUrls :
         \E out \in ValidateTicketOutcomes(pts, ticket, service, None) :
            /\ out.err # None
            /\ last' = Finished("pt", ticket, pgturl, out.err,
                    Except(PTCaught, out.err, PTFailure(out.err)))
    /\ UNCHANGED <<storeVars, calls, stReturned, ptReturned, attrVars>>

\* The call of worker p ends with AttributeError leaving the validator.
PTRaise(p) ==
    /\ calls' = [calls EXCEPT ![p] = Idle]
    /\ last' = Finished("pt", calls[p].t, calls[p].pgturl, None,
                        Raised(AttributeError))

\* proxies = [pt.service]; prior_pt = pt.granted_by_pgt.granted_by_pt
PTElse(p) ==
    LET c == calls[p] IN
    /\ Delivered /\ c.op = "pt" /\ c.pc = "else"
    /\ IF DerefRaises(c.t) THEN PTRaise(p)
       ELSE /\ calls' = [calls EXCEPT ![p] =
                    [@ EXCEPT !.pc = "while", !.proxies = FirstProxy(c.t),
                              !.prior_pt = GrantedByPT(c.t)]]
            /\ last' = last
    /\ UNCHANGED <<storeVars, stReturned, ptReturned, attrVars>>

\* One iteration of `while prior_pt:`.
PTWhile(p) ==
    LET c == calls[p] IN
    /\ Delivered /\ c.op = "pt" /\ c.pc = "while" /\ c.prior_pt # None
    /\ Len(c.proxies) < MaxWalk
    /\ IF DerefRaises(c.prior_pt) THEN PTRaise(p)
       ELSE /\ calls' = [calls EXCEPT ![p] =
                    [@ EXCEPT !.proxies = AppendProxy(c.proxies, c.prior_pt),
                              !.prior_pt = GrantedByPT(c.prior_pt)]]
            /\ last' = last
    /\ UNCHANGED <<storeVars, stReturned, ptReturned, attrVars>>

\* The loop has ended: the optional ProxyGrantingTicket and the return.
PTIssue(p) ==
    LET c == calls[p] IN
    /\ Delivered /\ c.op = "pt" /\ c.pc = "while" /\ c.prior_pt = None
    /\ IF WantsPGT(c.pgturl)
       THEN /\ Count(pgts) < MaxPGT
            /\ pgts' = CreatePGT(PTPgtKwargs(c.t, c.pgturl))
            /\ last' = Finished("pt", c.t, c.pgturl, None,
                                PTSuccess(c.t, NewPGT, c.proxies))
       ELSE /\ pgts' = pgts
            /\ last' = Finished("pt", c.t, c.pgturl, None,
                                PTSuccess(c.t, None, c.proxies))
    /\ calls' = [calls EXCEPT ![p] = Idle]
    /\ ptReturned' = [ptReturned EXCEPT ![c.t] = @ + 1]
    /\ UNCHANGED <<sts, pts, stReturned, attrVars>>

(* validate_proxy_granting_ticket *)

\* Variant: the except clause of the ticket validators, without BadPGTError.
PGTCaughtAsTicket == {InvalidRequestError, InvalidTicketError, InternalError}
PGTCaught == {InvalidRequestError, BadPGTError, InternalError}

\* return None, e
PGTFailure(e) == Returned(2, None, None, None, e)

\* return pt, None
PGTSuccess(pt) == Returned(2, pt, None, None, None)

\* Variant: the ProxyTicket is issued for the service of the ticket that the
\* ProxyGrantingTicket came from.
PTKwargsOriginService(pgt, target_service) ==
    [service |-> IF pgts[pgt].granted_by_st # None
                 THEN sts[pgts[pgt].granted_by_st].service
                 ELSE pts[pgts[pgt].granted_by_pt].service,
     user |-> pgts[pgt].user, granted_by_pgt |-> pgt]

\* Variant: the ProxyTicket is not given the user of the ProxyGrantingTicket.
PTKwargsDefaultUser(pgt, target_service) ==
    [service |-> target_service, user |-> "alice", granted_by_pgt |-> pgt]

\* Variant: granted_by_pgt is not passed.
PTKwargsNoPGT(pgt, target_service) ==
    [service |-> target_service, user |-> pgts[pgt].user,
     granted_by_pgt |-> None]

\* create_ticket(service=target_service, user=pgt.user, granted_by_pgt=pgt)
PTKwargs(pgt, target_service) ==
    [service |-> target_service, user |-> pgts[pgt].user,
     granted_by_pgt |-> pgt]

\* The call's service field holds the targetService parameter.
PGTValidate(p) ==
    /\ CanStart(p)
    /\ \E pgt \in PGTIds \cup {None}, target_service \in Services \cup {None} :
         \E out \in ValidatePGTOutcomes(pgt, target_service) :
            /\ out.err = None
            /\ calls' = [calls EXCEPT ![p] =
                    InElse("pgt", target_service, None, out.t)]
    /\ UNCHANGED <<storeVars, last, stReturned, ptReturned, attrVars>>

PGTExcept ==
    /\ \E p \in Procs : CanStart(p)
    /\ \E pgt \in PGTIds \cup {None}, target_service \in Services \cup {None} :
         \E out \in ValidatePGTOutcomes(pgt, target_service) :
            /\ out.err # None
            /\ last' = Finished("pgt", pgt, None, out.err,
                    Except(PGTCaught, out.err, PGTFailure(out.err)))
    /\ UNCHANGED <<storeVars, calls, stReturned, ptReturned, attrVars>>

PGTElse(p) ==
    LET c == calls[p] IN
    /\ Delivered /\ c.op = "pgt" /\ c.pc = "else"
    /\ Count(pts) < MaxPT
    /\ pts' = CreatePT(PTKwargs(c.t, c.service))
    /\ calls' = [calls EXCEPT ![p] = Idle]
    /\ last' = Finished("pgt", c.t, None, None, PGTSuccess(NewPT))
    /\ UNCHANGED <<sts, pgts, stReturned, ptReturned, attrVars>>

----------------------------------------------------------------------------
(* CustomAttributesMixin                                                   *)

\* Field names of the user and profile objects, and the names (labels) the
\* settings give to attributes.
Keys == {"email", "dept"}
Labels == {"mail", "ou"}

\* A user or profile object: its fields, each with a value.
Object(kind, fields) == [k \in fields |-> <<kind, k>>]
Objects(kind) == {Object(kind, fields) : fields \in SUBSET Keys}

\* What user.get_profile() raises when the user has no profile.
ObjectDoesNotExist == "ObjectDoesNotExist"
SiteProfileNotAvailable == "SiteProfileNotAvailable"
ProfileErrors == {ObjectDoesNotExist, SiteProfileNotAvailable}

\* The settings MAMA_CAS_USER_ATTRIBUTES and MAMA_CAS_PROFILE_ATTRIBUTES:
\* lists of (name, key) pairs; an unset setting reads as the empty list.
AttrLists ==
    UNION {[1..n -> Labels \X Keys] : n \in 0..MaxAttrs}

\* The ticket argument when it is None.
NoTicket == [none |-> TRUE]

\* A call of get_custom_attributes: the ticket (None, or a ticket with its
\* user), the user's profile or the error the profile lookup raises, and
\* the two settings.
AttrInputs ==
    [ticket : {NoTicket} \cup {[user |-> u] : u \in Objects("user")},
     profile : [error : ProfileErrors, object : {<<>>}]
               \cup [error : {None}, object : Objects("profile")],
     user_attr_list : AttrLists,
     profile_attr_list : AttrLists]

\* Results: None, or a list of [name, value] entries.
NoneResult == [kind |-> "None", attributes |-> <<>>]
ListResult(attributes) == [kind |-> "list", attributes |-> attributes]
Pending == [kind |-> "pending", attributes |-> <<>>]

\* getattr(obj, key) raises AttributeError
NoAttr(obj, key) == key \notin DOMAIN obj

\* Variant: the loop ends at the first key the object lacks.
RECURSIVE ExtractStopAtMissing(_, _, _, _)
ExtractStopAtMissing(obj, attr_list, i, attributes) ==
    IF i > Len(attr_list) THEN attributes
    ELSE IF NoAttr(obj, attr_list[i][2]) THEN attributes
    ELSE ExtractStopAtMissing(obj, attr_list, i + 1,
            Append(attributes, <<attr_list[i][1], obj[attr_list[i][2]]>>))

\* One pass of `for (name, key) in attr_list:` from entry i on: an entry
\* whose key the object lacks is skipped (AttributeError is caught), the
\* others are appended as [name, getattr(obj, key)].
RECURSIVE Extract(_, _, _, _)
Extract(obj, attr_list, i, attributes) ==
    IF i > Len(attr_list) THEN attributes
    ELSE IF NoAttr(obj, attr_list[i][2])
         THEN Extract(obj, attr_list, i + 1, attributes)
         ELSE Extract(obj, attr_list, i + 1,
                Append(attributes, <<attr_list[i][1], obj[attr_list[i][2]]>>))

\* Variant: an absent ticket gives the empty list.
AbsentTicketEmpty == ListResult(<<>>)

\* if not ticket: return None
AbsentTicket == NoneResult

\* Variant: a failed profile lookup drops the user attributes too.
WithProfileOrNothing(attributes, profile, profile_attr_list) ==
    IF profile.error \in ProfileErrors THEN <<>>
    ELSE Extract(profile.object, profile_attr_list, 1, attributes)

\* The try statement around user.get_profile(): the profile attributes are
\* added to the user attributes unless the lookup raises.
WithProfile(attributes, profile, profile_attr_list) ==
    IF profile.error \in ProfileErrors THEN attributes
    ELSE Extract(profile.object, profile_attr_list, 1, attributes)

get_custom_attributes(in) ==
    IF in.ticket = NoTicket THEN AbsentTicket
    ELSE ListResult(WithProfile(
            Extract(in.ticket.user, in.user_attr_list, 1, <<>>),
            in.profile, in.profile_attr_list))

GetCustomAttributes ==
    /\ attrOut = Pending
    /\ attrOut' = get_custom_attributes(attrIn)
    /\ UNCHANGED <<storeVars, calls, last, stReturned, ptReturned, attrIn>>

----------------------------------------------------------------------------
(* Environment: a login issues a ServiceTicket for a service.             *)

Login ==
    /\ Delivered
    /\ \E st \in STIds \ DOMAIN sts, user \in Users, service \in Services :
         sts' = sts @@ (st :> [service |-> service, user |-> user,
                               consumed |-> FALSE])
    /\ UNCHANGED <<pts, pgts, calls, last, stReturned, ptReturned, attrVars>>

\* The caller takes the result.
Respond ==
    /\ ~Delivered
    /\ last' = NoCall
    /\ UNCHANGED <<storeVars, calls, stReturned, ptReturned, attrVars>>

----------------------------------------------------------------------------

Init ==
    /\ sts = <<>> /\ pts = <<>> /\ pgts = <<>>
    /\ calls = [p \in Procs |-> Idle]
    /\ last = NoCall
    /\ stReturned = [i \in STIds |-> 0]
    /\ ptReturned = [i \in PTIds |-> 0]
    /\ attrIn = [ticket |-> NoTicket,
                 profile |-> [error |-> ObjectDoesNotExist, object |-> <<>>],
                 user_attr_list |-> <<>>, profile_attr_list |-> <<>>]
    /\ attrOut = Pending

Next ==
    \/ Login \/ Respond
    \/ STExcept \/ PTExcept \/ PGTExcept
    \/ \E p \in Procs :
         \/ STValidate(p) \/ STElse(p)
         \/ PTValidate(p) \/ PTElse(p) \/ PTWhile(p) \/ PTIssue(p)
         \/ PGTValidate(p) \/ PGTElse(p)

Spec == Init /\ [][Next]_vars

\* A worker inside the loop of validate_proxy_ticket keeps running, and a
\* finished call is answered.
Fairness ==
    /\ WF_vars(Respond)
    /\ \A p \in Procs : SF_vars(PTWhile(p))

SpecFair == Spec /\ Fairness

\* validate_proxy_ticket over stores whose back-references repeat: rows that
\* no validator writes, but that the database can hold.  PT-1 is granted by
\* PGT-1 and PT-2 by PGT-2; PGT-1 is granted by a ProxyTicket that leads back
\* to it, PGT-2 by the ServiceTicket or by a ProxyTicket.
CyclicOrigins ==
    { o \in [PGTIds -> STIds \cup PTIds] :
        /\ o[PGTId(1)] \in PTIds
        /\ o[PGTId(1)] = PTId(2) => o[PGTId(2)] = PTId(1) }

CyclicStore(o) ==
    [pgt \in PGTIds |->
        [url |-> CallbackUrl, user |-> "alice",
         granted_by_st |-> IF o[pgt] \in STIds THEN o[pgt] ELSE None,
         granted_by_pt |-> IF o[pgt] \in PTIds THEN o[pgt] ELSE None]]

InitCyclic ==
    /\ sts = [st \in STIds |->
                [service |-> "https://a.example", user |-> "alice",
                 consumed |-> TRUE]]
    /\ pts \in [PTIds -> [service : Services, user : {"alice"},
                          granted_by_pgt : PGTIds, consumed : {FALSE}]]
    /\ \A i \in 1..MaxPT : pts[PTId(i)].granted_by_pgt = PGTId(i)
    /\ \E o \in CyclicOrigins : pgts = CyclicStore(o)
    /\ calls = [p \in Procs |-> Idle]
    /\ last = NoCall
    /\ stReturned = [i \in STIds |-> 1]
    /\ ptReturned = [i \in PTIds |-> 0]
    /\ attrIn = [ticket |-> NoTicket,
                 profile |-> [error |-> ObjectDoesNotExist, object |-> <<>>],
                 user_attr_list |-> <<>>, profile_attr_list |-> <<>>]
    /\ attrOut = Pending

NextCyclic ==
    \/ Respond
    \/ PTExcept
    \/ \E p \in Procs :
         PTValidate(p) \/ PTElse(p) \/ PTWhile(p) \/ PTIssue(p)

SpecCyclic == InitCyclic /\ [][NextCyclic]_vars

\* get_custom_attributes on its own, over every input within the bounds.
InitAttr ==
    /\ sts = <<>> /\ pts = <<>> /\ pgts = <<>>
    /\ calls = [p \in Procs |-> Idle]
    /\ last = NoCall
    /\ stReturned = [i \in STIds |-> 0]
    /\ ptReturned = [i \in PTIds |-> 0]
    /\ attrIn \in AttrInputs
    /\ attrOut = Pending

NextAttr == GetCustomAttributes

SpecAttr == InitAttr /\ [][NextAttr]_vars

----------------------------------------------------------------------------
(* Properties                                                              *)

\* The finished call is of validator op.
LastIs(op) == last.op = op

\* The finished call returned a ticket and no error.
Succeeded ==
    /\ last.result.how = "return"
    /\ last.result.error = None
    /\ last.result.ticket # None

\* The finished call presented a callback URL.
CallbackSupplied == last.pgturl \notin {None, EmptyStr}

\* C1: every validate_service_ticket call returns a triple: when the store
\* accepted the (service, ticket) pair, (a ServiceTicket of the store, a
\* ProxyGrantingTicket or None, None); when the store raised e,
\* (None, None, e), with e the very error that the store raised.
C1_ServiceTicketResult ==
    LastIs("st") =>
        /\ last.result.how = "return" /\ last.result.arity = 3
        /\ IF last.exc = None
           THEN /\ last.result.ticket \in DOMAIN sts
                /\ last.result.pgt \in DOMAIN pgts \cup {None}
                /\ last.result.error = None
           ELSE /\ last.result.ticket = None
                /\ last.result.pgt = None
                /\ last.result.error = last.exc

\* The store rejected a service ticket as invalid and the validator returned
\* (None, None, InvalidTicketError).
C1_Witness ==
    /\ LastIs("st") /\ last.ticket \in STIds
    /\ last.exc = InvalidTicketError
    /\ last.result = Returned(3, None, None, None, InvalidTicketError)

\* C2: validate_service_ticket and validate_proxy_ticket return a
\* ProxyGrantingTicket if and only if the validation succeeded and the
\* request carried a callback URL; that ticket is one of the store, granted
\* by the validated ticket.  A success without callback URL returns the
\* ticket and no ProxyGrantingTicket.
C2_PGTIffCallback ==
    (LastIs("st") \/ LastIs("pt")) =>
        /\ last.result.pgt # None <=> (Succeeded /\ CallbackSupplied)
        /\ last.result.pgt # None =>
              /\ last.result.pgt \in DOMAIN pgts
              /\ IF LastIs("st")
                 THEN pgts[last.result.pgt].granted_by_st = last.result.ticket
                 ELSE pgts[last.result.pgt].granted_by_pt = last.result.ticket
        /\ (Succeeded /\ ~CallbackSupplied) =>
              last.result.pgt = None /\ last.result.ticket # None

\* A proxy ticket validated with a callback URL: a ProxyGrantingTicket is
\* returned.
C2_Witness ==
    /\ LastIs("pt") /\ Succeeded /\ CallbackSupplied
    /\ last.result.pgt \in DOMAIN pgts

\* The ProxyGrantingTicket that granted proxy ticket pt.
PGTOf(pt) == pgts[pts[pt].granted_by_pgt]

\* The delegation hops behind proxy ticket pt: one when its
\* ProxyGrantingTicket comes from a ServiceTicket, one more than those of the
\* prior ProxyTicket when it comes from that ProxyTicket.
RECURSIVE Hops(_)
Hops(pt) ==
    IF PGTOf(pt).granted_by_st # None THEN 1
    ELSE 1 + Hops(PGTOf(pt).granted_by_pt)

\* C3: the proxy chain of a successful validate_proxy_ticket has as many
\* elements as the ticket has delegation hops, and is never empty.
C3_ChainLength ==
    (LastIs("pt") /\ Succeeded) =>
        /\ Len(last.result.proxies) = Hops(last.result.ticket)
        /\ Len(last.result.proxies) >= 1

\* A proxy ticket two hops from the ServiceTicket was validated.
C3_Witness ==
    /\ LastIs("pt") /\ Succeeded
    /\ PGTOf(last.result.ticket).granted_by_pt # None
    /\ Len(last.result.proxies) = 2

\* The ProxyTickets behind pt, most recent first: pt, then the ProxyTicket
\* its ProxyGrantingTicket was granted by, and so on to the one whose
\* ProxyGrantingTicket was granted by a ServiceTicket.
RECURSIVE Trail(_)
Trail(pt) ==
    IF PGTOf(pt).granted_by_pt = None THEN <<pt>>
    ELSE <<pt>> \o Trail(PGTOf(pt).granted_by_pt)

\* The chain lists the services of the tickets of the trail, in its order.
ChainFollowsTrail(proxies, pt) ==
    /\ Len(proxies) = Len(Trail(pt))
    /\ \A i \in 1..Len(proxies) : proxies[i] = pts[Trail(pt)[i]].service
    /\ proxies[1] = pts[pt].service
    /\ PGTOf(Trail(pt)[Len(Trail(pt))]).granted_by_st # None

\* The service of the ServiceTicket at the root of pt's delegation.
RootService(pt) ==
    sts[PGTOf(Trail(pt)[Len(Trail(pt))]).granted_by_st].service

\* C4, as claimed: the chain is ordered most recent first along the trail,
\* and the ServiceTicket's own service is never in the chain.
C4_AsClaimed ==
    (LastIs("pt") /\ Succeeded) =>
        /\ ChainFollowsTrail(last.result.proxies, last.result.ticket)
        /\ RootService(last.result.ticket) \notin Range(last.result.proxies)

\* C4, amended: the chain is ordered most recent first along the trail and
\* has one element for each ProxyTicket of the trail and none for the
\* ServiceTicket: where the ServiceTicket's service is in the chain, it is
\* there as the service of a ProxyTicket of the trail.
C4_ChainOrder ==
    (LastIs("pt") /\ Succeeded) =>
        /\ ChainFollowsTrail(last.result.proxies, last.result.ticket)
        /\ \A i \in 1..Len(last.result.proxies) :
              last.result.proxies[i] = RootService(last.result.ticket) =>
                 pts[Trail(last.result.ticket)[i]].service
                    = RootService(last.result.ticket)

\* A chain of two different services was returned: the validated ticket's
\* first.
C4_Witness ==
    /\ LastIs("pt") /\ Succeeded
    /\ Len(last.result.proxies) = 2
    /\ last.result.proxies[1] # last.result.proxies[2]
    /\ last.result.proxies[1] = pts[last.result.ticket].service

\* Worker p's validate_proxy_granting_ticket call finishes in this step,
\* its store validation having succeeded.
PGTCallSucceeds(p) ==
    /\ calls[p].op = "pgt" /\ calls[p].pc = "else"
    /\ calls'[p].pc = "idle"

\* C5: a successful validate_proxy_granting_ticket creates exactly one
\* ticket, a ProxyTicket for the requested target service, granted by the
\* validated ProxyGrantingTicket and owned by its user, and returns
\* (that ProxyTicket, None); it creates no ProxyGrantingTicket and changes
\* no other ticket.
C5_OneProxyTicket ==
    [][\A p \in Procs : PGTCallSucceeds(p) =>
          /\ last'.op = "pgt"
          /\ last'.result.how = "return" /\ last'.result.arity = 2
          /\ last'.result.error = None /\ last'.result.pgt = None
          /\ last'.result.ticket \notin DOMAIN pts
          /\ DOMAIN pts' = DOMAIN pts \cup {last'.result.ticket}
          /\ \A pt \in DOMAIN pts : pts'[pt] = pts[pt]
          /\ pts'[last'.result.ticket].service = calls[p].service
          /\ pts'[last'.result.ticket].granted_by_pgt = calls[p].t
          /\ pts'[last'.result.ticket].user = pgts[calls[p].t].user
          /\ pgts' = pgts /\ sts' = sts]_vars

\* A ProxyTicket was issued for a target service other than the service of
\* the ServiceTicket the ProxyGrantingTicket came from.
C5_Witness ==
    /\ LastIs("pgt") /\ Succeeded
    /\ last.result.ticket \in DOMAIN pts
    /\ pts[last.result.ticket].granted_by_pgt = last.ticket
    /\ pgts[last.ticket].granted_by_st # None
    /\ pts[last.result.ticket].service
          # sts[pgts[last.ticket].granted_by_st].service

\* The length of the tuple each validator returns.
Arity(op) == IF op = "st" THEN 3 ELSE IF op = "pt" THEN 4 ELSE 2

AtMostOnce ==
    /\ \A st \in STIds : stReturned[st] <= 1
    /\ \A pt \in PTIds : ptReturned[pt] <= 1

\* The finished call presented a ticket string to validate_service_ticket or
\* validate_proxy_ticket and did not get the ticket.
Refused ==
    /\ LastIs("st") \/ LastIs("pt")
    /\ last.ticket # None
    /\ ~Succeeded

\* C7, as claimed: at most one call returns the ticket of a ticket string and
\* every other call presenting it returns no ticket and InvalidTicketError.
C7_AsClaimed ==
    /\ AtMostOnce
    /\ Refused =>
          /\ last.result.how = "return" /\ last.result.ticket = None
          /\ last.result.error = InvalidTicketError

\* C7, amended: at most one call returns the ticket of a ticket string; every
\* other call presenting it returns no ticket, no ProxyGrantingTicket and
\* the error the store raised for it, one of the four kinds the store
\* raises.
C7_SingleUse ==
    /\ AtMostOnce
    /\ Refused =>
          /\ last.result.how = "return" /\ last.result.ticket = None
          /\ last.result.pgt = None
          /\ last.result.error = last.exc
          /\ last.result.error \in
                {InvalidRequestError, InvalidTicketError,
                 InvalidServiceError, InternalError}

\* A proxy ticket that one call has been returned is presented again, and
\* refused with InvalidTicketError.
C7_Witness ==
    /\ Refused /\ LastIs("pt")
    /\ ptReturned[last.ticket] = 1
    /\ last.result.error = InvalidTicketError

\* The entries [name, value] of the pairs of attr_list whose key is a field
\* of obj, in the order of attr_list.
ExistingPairs(obj, attr_list) ==
    LET Exists(pair) == pair[2] \in DOMAIN obj
        kept == SelectSeq(attr_list, Exists)
    IN  [i \in 1..Len(kept) |-> <<kept[i][1], obj[kept[i][2]]>>]

\* get_custom_attributes has returned.
AttrDone == attrOut # Pending

\* C8: get_custom_attributes returns None for an absent ticket, and an empty
\* list, which is not None, for a ticket when both attribute lists are
\* empty.
C8_NoneOrEmpty ==
    AttrDone =>
        /\ attrIn.ticket = NoTicket => attrOut = NoneResult
        /\ (/\ attrIn.ticket # NoTicket
            /\ attrIn.user_attr_list = <<>>
            /\ attrIn.profile_attr_list = <<>>) =>
              /\ attrOut = ListResult(<<>>)
              /\ attrOut # NoneResult

\* None was returned for an absent ticket though attributes are configured.
C8_Witness ==
    /\ AttrDone /\ attrIn.ticket = NoTicket
    /\ attrIn.user_attr_list # <<>>
    /\ attrOut.kind = "None"

\* C9: the result for a ticket holds an entry for exactly the configured
\* pairs whose field exists on their source object: those of the user list
\* on the user, then those of the profile list on the profile, if there is
\* one.
C9_MissingFieldsSkipped ==
    (AttrDone /\ attrIn.ticket # NoTicket) =>
        /\ attrOut.kind = "list"
        /\ attrOut.attributes =
              ExistingPairs(attrIn.ticket.user, attrIn.user_attr_list)
              \o (IF attrIn.profile.error = None
                  THEN ExistingPairs(attrIn.profile.object,
                                     attrIn.profile_attr_list)
                  ELSE <<>>)

\* The first configured user field is missing and the second exists: the
\* result is the entry of the second.
C9_Witness ==
    /\ AttrDone /\ attrIn.ticket # NoTicket
    /\ Len(attrIn.user_attr_list) = 2
    /\ attrIn.user_attr_list[1][2] \notin DOMAIN attrIn.ticket.user
    /\ attrIn.user_attr_list[2][2] \in DOMAIN attrIn.ticket.user
    /\ attrIn.profile.error # None
    /\ Len(attrOut.attributes) = 1
    /\ attrOut.attributes[1][1] = attrIn.user_attr_list[2][1]

\* C10: when the profile lookup fails, the result is the list of the
\* entries taken from the user-attribute list, whatever the
\* profile-attribute list holds.
C10_NoProfile ==
    (AttrDone /\ attrIn.ticket # NoTicket
        /\ attrIn.profile.error \in ProfileErrors) =>
        /\ attrOut.kind = "list"
        /\ attrOut.attributes =
              ExistingPairs(attrIn.ticket.user, attrIn.user_attr_list)

\* The profile is not available, profile attributes are configured, and the
\* user attributes are returned.
C10_Witness ==
    /\ AttrDone /\ attrIn.ticket # NoTicket
    /\ attrIn.profile.error = SiteProfileNotAvailable
    /\ attrIn.profile_attr_list # <<>>
    /\ attrOut.kind = "list"
    /\ Len(attrOut.attributes) = 2

\* The ServiceTicket at the root of the delegation behind ProxyTicket pt.
RECURSIVE RootST(_)
RootST(pt) ==
    IF PGTOf(pt).granted_by_st # None THEN PGTOf(pt).granted_by_st
    ELSE RootST(PGTOf(pt).granted_by_pt)

\* C11: the user is the same along every delegation chain: a
\* ProxyGrantingTicket has the user of the ServiceTicket or ProxyTicket it
\* was granted by, a ProxyTicket the user of its ProxyGrantingTicket, and so
\* every ProxyTicket the user of the ServiceTicket at the root of its chain.
C11_SameUser ==
    /\ \A pgt \in DOMAIN pgts :
          /\ pgts[pgt].granted_by_st # None =>
                pgts[pgt].user = sts[pgts[pgt].granted_by_st].user
          /\ pgts[pgt].granted_by_pt # None =>
                pgts[pgt].user = pts[pgts[pgt].granted_by_pt].user
    /\ \A pt \in DOMAIN pts :
          /\ pts[pt].user = PGTOf(pt).user
          /\ pts[pt].user = sts[RootST(pt)].user

\* bob's login has been delegated over two hops.
C11_Witness ==
    \E pt \in DOMAIN pts :
        /\ PGTOf(pt).granted_by_pt # None
        /\ pts[pt].user = "bob"
        /\ sts["ST-1"].user = "bob"

\* C12: every ProxyGrantingTicket has exactly one of granted_by_st and
\* granted_by_pt: the one issued by validate_service_ticket has
\* granted_by_st, the validated ServiceTicket, and no granted_by_pt; the one
\* issued by validate_proxy_ticket has granted_by_pt, the validated
\* ProxyTicket, and no granted_by_st.
C12_OneOrigin ==
    /\ \A pgt \in DOMAIN pgts :
          (pgts[pgt].granted_by_st # None) # (pgts[pgt].granted_by_pt # None)
    /\ ((LastIs("st") \/ LastIs("pt")) /\ last.result.pgt # None) =>
          IF LastIs("st")
          THEN /\ pgts[last.result.pgt].granted_by_st = last.result.ticket
               /\ last.result.ticket \in DOMAIN sts
               /\ pgts[last.result.pgt].granted_by_pt = None
          ELSE /\ pgts[last.result.pgt].granted_by_pt = last.result.ticket
               /\ last.result.ticket \in DOMAIN pts
               /\ pgts[last.result.pgt].granted_by_st = None

\* validate_proxy_ticket has just issued a ProxyGrantingTicket, beside the
\* one that validate_service_ticket issued.
C12_Witness ==
    /\ LastIs("pt") /\ last.result.pgt \in DOMAIN pgts
    /\ pgts[last.result.pgt].granted_by_pt \in DOMAIN pts
    /\ \E pgt \in DOMAIN pgts : pgts[pgt].granted_by_st \in DOMAIN sts

\* C13: every ProxyTicket has a granted_by_pgt, a ProxyGrantingTicket of the
\* store, and is created by the step that ends a
\* validate_proxy_granting_ticket call whose store validation returned that
\* ProxyGrantingTicket.
C13_GrantedByValidatedPGT ==
    /\ [](\A pt \in DOMAIN pts :
            /\ pts[pt].granted_by_pgt # None
            /\ pts[pt].granted_by_pgt \in DOMAIN pgts)
    /\ [][\A pt \in DOMAIN pts' \ DOMAIN pts :
            \E p \in Procs :
                /\ calls[p].op = "pgt" /\ calls[p].pc = "else"
                /\ calls[p].t \in DOMAIN pgts
                /\ pts'[pt].granted_by_pgt = calls[p].t
                /\ calls'[p].pc = "idle"]_vars

\* A ProxyTicket granted by a ProxyGrantingTicket that validate_proxy_ticket
\* issued has just been returned.
C13_Witness ==
    /\ LastIs("pgt") /\ Succeeded
    /\ last.result.ticket \in DOMAIN pts
    /\ pts[last.result.ticket].granted_by_pgt \in DOMAIN pgts
    /\ PGTOf(last.result.ticket).granted_by_pt # None

\* Following granted_by_pgt.granted_by_pt from ProxyTicket pt for at most n
\* ProxyTickets ends at a ProxyGrantingTicket granted by a ServiceTicket,
\* without meeting a ticket of seen again.
RECURSIVE EndsAtST(_, _, _)
EndsAtST(pt, n, seen) ==
    /\ n > 0
    /\ pt \in DOMAIN pts /\ pt \notin seen
    /\ pts[pt].granted_by_pgt \in DOMAIN pgts
    /\ IF PGTOf(pt).granted_by_pt = None
       THEN PGTOf(pt).granted_by_st \in DOMAIN sts
       ELSE EndsAtST(PGTOf(pt).granted_by_pt, n - 1, seen \cup {pt})

\* C14: from every ProxyTicket the chain of back-references is finite, meets
\* no ticket twice, and ends at a ProxyGrantingTicket granted by a
\* ServiceTicket.
C14_Acyclic ==
    \A pt \in DOMAIN pts : EndsAtST(pt, Count(pts), {})

\* A chain of two ProxyTickets.
C14_Witness ==
    \E pt \in DOMAIN pts :
        /\ PGTOf(pt).granted_by_pt \in DOMAIN pts \ {pt}
        /\ PGTOf(PGTOf(pt).granted_by_pt).granted_by_st \in DOMAIN sts

\* Worker p is inside the loop of validate_proxy_ticket.
InWalk(p) == calls[p].op = "pt" /\ calls[p].pc = "while"

\* The loop condition of worker p is false: the walk has reached a null
\* reference.
WalkEnded(p) == InWalk(p) /\ calls[p].prior_pt = None

\* C15: the loop of validate_proxy_ticket terminates: a worker inside it
\* eventually finds prior_pt null, having made no more iterations than there
\* are ProxyTickets, and the call leaves the loop only that way, returning
\* the ticket and the collected chain without an error.
C15_WalkTerminates ==
    /\ \A p \in Procs : InWalk(p) ~> WalkEnded(p)
    /\ [](\A p \in Procs : InWalk(p) =>
            /\ Len(calls[p].proxies) <= Count(pts)
            /\ Len(calls[p].proxies) < MaxWalk)
    /\ [][\A p \in Procs : (InWalk(p) /\ ~InWalk(p)') =>
            /\ WalkEnded(p)
            /\ last'.op = "pt" /\ last'.result.how = "return"
            /\ last'.result.error = None
            /\ last'.result.ticket = calls[p].t
            /\ last'.result.proxies = calls[p].proxies]_vars

\* A walk of two iterations has ended.
C15_Witness ==
    \E p \in Procs : WalkEnded(p) /\ Len(calls[p].proxies) = 2

\* The ProxyTickets that the first n iterations of the walk from pt are at.
RECURSIVE Visited(_, _)
Visited(pt, n) ==
    IF n = 0 \/ pt = None THEN {}
    ELSE {pt} \cup Visited(GrantedByPT(pt), n - 1)

\* The walk of worker p has come to a ProxyTicket for the second time.
Repeats(p) ==
    /\ InWalk(p) /\ calls[p].prior_pt # None
    /\ calls[p].prior_pt \in Visited(calls[p].t, Len(calls[p].proxies))

\* C16: a walk that comes to a ProxyTicket for the second time goes no
\* further: the next step of that call ends it with InternalError.
C16_CycleGuard ==
    [][\A p \in Procs : (Repeats(p) /\ calls'[p] # calls[p]) =>
            /\ calls'[p].pc = "idle"
            /\ last'.op = "pt" /\ last'.result.error = InternalError]_vars

\* The step leaves every ticket of the store in place, with its
\* back-references and its user.
TicketsKept ==
    /\ \A st \in DOMAIN sts :
          st \in DOMAIN sts' /\ sts'[st].user = sts[st].user
    /\ \A pt \in DOMAIN pts :
          /\ pt \in DOMAIN pts'
          /\ pts'[pt].granted_by_pgt = pts[pt].granted_by_pgt
          /\ pts'[pt].user = pts[pt].user
    /\ \A pgt \in DOMAIN pgts :
          /\ pgt \in DOMAIN pgts'
          /\ pgts'[pgt].granted_by_st = pgts[pgt].granted_by_st
          /\ pgts'[pgt].granted_by_pt = pgts[pgt].granted_by_pt
          /\ pgts'[pgt].user = pgts[pgt].user

\* The step ends a validator call with a non-null error.
FailsNow ==
    /\ last' # last /\ last'.op # "idle"
    /\ last'.result.error # None

\* C17: a step that ends a validator call with a non-null error creates no
\* ProxyGrantingTicket and no ProxyTicket, and no step removes a ticket or
\* changes the back-references or the user of a ticket that exists.
C17_FailureHasNoEffect ==
    [][/\ FailsNow => (DOMAIN pgts' = DOMAIN pgts /\ DOMAIN pts' = DOMAIN pts)
       /\ UNCHANGED storeVars \/ TicketsKept]_vars

\* validate_proxy_granting_ticket has failed on a store that holds a
\* ProxyTicket and the ProxyGrantingTickets of both origins.
C17_Witness ==
    /\ LastIs("pgt") /\ last.result.error # None
    /\ Count(pts) >= 1
    /\ \E a, b \in DOMAIN pgts :
          pgts[a].granted_by_st # None /\ pgts[b].granted_by_pt # None

StoreChain(pt) == [i \in 1..Len(Trail(pt)) |-> pts[Trail(pt)[i]].service]

\* What worker p has collected is the beginning of the chain that the store
\* determines for its ticket, and prior_pt is the ticket that comes next.
WalkOnTrail(p) ==
    LET c == calls[p]
        n == Len(c.proxies)
    IN  /\ n >= 1 /\ n <= Len(Trail(c.t))
        /\ c.proxies = SubSeq(StoreChain(c.t), 1, n)
        /\ c.prior_pt = IF n < Len(Trail(c.t)) THEN Trail(c.t)[n + 1] ELSE None

\* C19: the chain of a ProxyTicket is fixed once the ticket exists: no step
\* of any worker changes the chain that the store determines for it, a walk
\* in progress has collected a prefix of that chain under every
\* interleaving, and the chain returned is that chain.
C19_StableChain ==
    /\ [][UNCHANGED <<pts, pgts>>
            \/ \A pt \in DOMAIN pts :
                  pt \in DOMAIN pts' /\ StoreChain(pt)' = StoreChain(pt)]_vars
    /\ [](\A p \in Procs : InWalk(p) => WalkOnTrail(p))
    /\ []((LastIs("pt") /\ Succeeded) =>
            last.result.proxies = StoreChain(last.result.ticket))

\* While a worker is inside the walk, another worker's
\* validate_proxy_granting_ticket has added a ProxyTicket to the store.
C19_Witness ==
    /\ LastIs("pgt") /\ Succeeded
    /\ \E p \in Procs : InWalk(p) /\ calls[p].t # last.result.ticket

====
